---- MODULE Spec2Model ----
(***************************************************************************)
(* Model of the AM2320 driver (src/src/lib.rs): measure() wakes the sensor *)
(* with a one-byte write, issues the read-registers command with a         *)
(* write_read, validates the 8-byte response (function code, register      *)
(* count, CRC-16) and decodes it into a Measurement.                       *)
(*                                                                         *)
(* One call of measure is a walk of pc through                             *)
(*   "wake" -> "command" -> "header" -> "crc" -> "decode" -> "done",       *)
(* leaving early to "done" on the first failure.  The two bus operations   *)
(* are the places where the environment (the I2C bus and the sensor)       *)
(* chooses an outcome.                                                     *)
(***************************************************************************)
EXTENDS Integers, Sequences, FiniteSets

VARIABLES
    pc,        \* position inside measure, or "idle"/"done" between calls
    busLog,    \* bus operations issued by the call in progress, in order
    wakeRes,   \* outcome of i2c.write (line 38)
    wrRes,     \* outcome of i2c.write_read (line 45)
    buf,       \* the response buffer of line 41; <<>> while it does not exist
    crcRecv,   \* `crc` of line 55; -1 while not computed
    crcCalc,   \* value of crc16(&buf[2..6]) of line 56; -1 while not computed
    result,    \* what measure returned
    wire,      \* ghost: what the sensor sent and how the bus corrupted it
    prev       \* ghost: outcomes and result of one earlier call

vars == <<pc, busLog, wakeRes, wrRes, buf, crcRecv, crcCalc, result, wire, prev>>

(***************************************************************************)
(* Bounds of the model.                                                    *)
(***************************************************************************)
\* Number of distinct error values the bus implementation can report.
NumErrors == 2

(***************************************************************************)
(* Program constants.                                                      *)
(***************************************************************************)
DEVICE_ADDRESS == 184
FUNC_READ_REGISTERS == 3
REG_HUMIDITY_HIGH == 0
REG_HUMIDITY_LOW == 1
REG_TEMPERATURE_HIGH == 2
REG_TEMPERATURE_LOW == 3
MEASUREMENT_REG_COUNT == 4
COMMAND == <<FUNC_READ_REGISTERS, REG_HUMIDITY_HIGH, MEASUREMENT_REG_COUNT>>
\* Length of the response buffer, `[0; 8]`.
BUF_LEN == 8
\* Initial register and reflected polynomial of crc16.
CRC_INIT == 65535
CRC_MASK == 40961

(***************************************************************************)
(* u16 / i16 arithmetic.                                                   *)
(***************************************************************************)
RECURSIVE BitXor(_, _)
BitXor(a, b) ==
    IF a = 0 THEN b
    ELSE IF b = 0 THEN a
    ELSE ((a + b) % 2) + 2 * BitXor(a \div 2, b \div 2)

RECURSIVE BitAnd(_, _)
BitAnd(a, b) ==
    IF a = 0 \/ b = 0 THEN 0
    ELSE ((a % 2) * (b % 2)) + 2 * BitAnd(a \div 2, b \div 2)

\* `x >>= 1` on a u16.
Shr1(x) == x \div 2

\* `x as i16` for a u16 x: reinterpretation of the 16 bits.
AsI16(x) == ((x + 32768) % 65536) - 32768

\* i16 multiplication: the wrapped product, and whether it left the i16 range
\* (a panic in a build with overflow checks, the wrapped value without them).
MulI16(a, b) == AsI16((a * b) % 65536)
MulI16Overflows(a, b) == (a * b < -32768) \/ (a * b > 32767)

\* from_be_bytes with the bytes in little-endian order.
from_le_bytes(hi, lo) == lo * 256 + hi

\* u16::from_be_bytes([hi, lo])
from_be_bytes(hi, lo) == hi * 256 + lo

(***************************************************************************)
(* crc16 (lines 123-139).                                                  *)
(***************************************************************************)
\* crc16_shift testing the low bit after the shift instead of before it.
crc16_shift_test_after(crc) ==
    IF BitAnd(Shr1(crc), 1) # 0
    THEN BitXor(Shr1(crc), CRC_MASK)
    ELSE Shr1(crc)

\* One iteration of the inner loop, lines 129-134.
crc16_shift(crc) ==
    IF BitAnd(crc, 1) # 0
    THEN BitXor(Shr1(crc), CRC_MASK)
    ELSE Shr1(crc)

\* `for _ in 0..8`, with n iterations left.
crc16_bits[crc \in Nat, n \in Nat] ==
    IF n = 0 THEN crc ELSE crc16_bits[crc16_shift(crc), n - 1]

\* The body of the outer loop for one byte, lines 127-135.
crc16_byte(crc, value) == crc16_bits[BitXor(crc, value), 8]

\* crc16 with the last byte of data left out of the loop.
crc16_without_last(data) ==
    LET loop[i \in Nat, crc \in Nat] ==
            IF i > Len(data) - 1 THEN crc
            ELSE loop[i + 1, crc16_byte(crc, data[i])]
    IN  loop[1, CRC_INIT]

\* The outer loop runs over the elements of data in order, from CRC_INIT.
crc16(data) ==
    LET loop[i \in Nat, crc \in Nat] ==
            IF i > Len(data) THEN crc
            ELSE loop[i + 1, crc16_byte(crc, data[i])]
    IN  loop[1, CRC_INIT]

\* from_raw reading the raw temperature as two's complement.
from_raw_twos_complement(raw_temperature, raw_humidity) ==
    [temperature |-> AsI16(raw_temperature),
     humidity |-> raw_humidity,
     overflow |-> FALSE]

(***************************************************************************)
(* Measurement::from_raw (lines 79-90).  overflow tells whether the i16    *)
(* multiplication of line 81 overflowed.                                   *)
(***************************************************************************)
from_raw(raw_temperature, raw_humidity) ==
    LET negative == BitAnd(raw_temperature, 32768) # 0
        magnitude == AsI16(BitAnd(raw_temperature, 32767))
    IN  [temperature |-> IF negative
                         THEN MulI16(magnitude, -1)
                         ELSE AsI16(raw_temperature),
         humidity |-> raw_humidity,
         overflow |-> negative /\ MulI16Overflows(magnitude, -1)]

(***************************************************************************)
(* Results of measure: Result<Measurement, Error<I>>.  One record shape    *)
(* for all variants; the fields a variant does not carry are 0.            *)
(***************************************************************************)
NoResult == [kind |-> "None", e |-> 0, temperature |-> 0, humidity |-> 0]
Ok(m) == [kind |-> "Ok", e |-> 0, temperature |-> m.temperature, humidity |-> m.humidity]
SensorFailed == [kind |-> "SensorFailed", e |-> 0, temperature |-> 0, humidity |-> 0]
IncorrectCrc == [kind |-> "IncorrectCrc", e |-> 0, temperature |-> 0, humidity |-> 0]
\* Error::I2cError(I2cError::Write(e)) and Error::I2cError(I2cError::WriteRead(e))
I2cWrite(e) == [kind |-> "I2cError.Write", e |-> e, temperature |-> 0, humidity |-> 0]
\* I2cWriteRead with the tag of the other bus operation.
I2cWriteReadTaggedWrite(e) == I2cWrite(e)
I2cWriteRead(e) == [kind |-> "I2cError.WriteRead", e |-> e, temperature |-> 0, humidity |-> 0]
\* A panic of the overflow-checked build.
Panicked == [kind |-> "Panic", e |-> 0, temperature |-> 0, humidity |-> 0]

(***************************************************************************)
(* The bus.                                                                *)
(***************************************************************************)
BusNone == [st |-> "none", e |-> 0]
BusOk == [st |-> "ok", e |-> 0]
BusErr(e) == [st |-> "err", e |-> e]
BusOutcomes == {BusOk} \cup {BusErr(e) : e \in 1..NumErrors}

\* The arguments of the two bus calls, lines 38 and 45.
WakeOp == [op |-> "write", addr |-> DEVICE_ADDRESS, bytes |-> <<0>>, rdlen |-> 0]
CommandOp == [op |-> "write_read", addr |-> DEVICE_ADDRESS, bytes |-> COMMAND, rdlen |-> BUF_LEN]

\* BufInit of a buffer that is not initialised: it keeps what it held.
BufStale == buf

\* `[0; 8]`
BufInit == [i \in 1..BUF_LEN |-> 0]

(***************************************************************************)
(* The checks and the decoding of measure (lines 48-69).  b is the response *)
(* buffer; At(b, i) is Rust's b[i].                                         *)
(***************************************************************************)
At(b, i) == b[i + 1]

\* HeaderFails with `&&` for `||`.
HeaderFailsBoth(func_code, read_count) ==
    func_code # FUNC_READ_REGISTERS /\ read_count # MEASUREMENT_REG_COUNT

\* The condition of line 51.
HeaderFails(func_code, read_count) ==
    func_code # FUNC_READ_REGISTERS \/ read_count # MEASUREMENT_REG_COUNT

\* `&buf[2..6]`
Payload(b) == SubSeq(b, 3, 6)

\* CrcFails of a driver that does not check the checksum.
CrcFailsNever(crc, calc) == FALSE

\* The condition of line 56.
CrcFails(crc, calc) == crc # calc

\* raw_humidity reading the temperature registers.
raw_humidity_swapped(b) ==
    from_be_bytes(At(b, 2 + REG_TEMPERATURE_HIGH), At(b, 2 + REG_TEMPERATURE_LOW))

\* Lines 60-63 and 64-67.
raw_humidity(b) ==
    from_be_bytes(At(b, 2 + REG_HUMIDITY_HIGH), At(b, 2 + REG_HUMIDITY_LOW))
raw_temperature(b) ==
    from_be_bytes(At(b, 2 + REG_TEMPERATURE_HIGH), At(b, 2 + REG_TEMPERATURE_LOW))

\* AfterWake without the `?`: the error of the wake write is dropped.
AfterWakeIgnoringError(o) == "command"

\* `?` after the wake write (line 39): where the call goes on an outcome.
AfterWake(o) == IF o.st = "ok" THEN "command" ELSE "done"

(***************************************************************************)
(* The environment: what the sensor puts on the bus and what reaches the   *)
(* buffer.  A wire record gives the two header bytes, the two raw register *)
(* values, how the sensor's checksum relates to the payload, and the index *)
(* (0..31, bit k of the 32 payload bits; -1 for none) of a payload bit     *)
(* flipped in transit after the checksum was computed.                     *)
(***************************************************************************)
FuncCodes == {FUNC_READ_REGISTERS, 0, 131}
Counts == {MEASUREMENT_REG_COUNT, 0}
HumRaws == {0, 400, 512, 65535}
TempRaws == {0, 1, 400, 32767, 32768, 32769, 33168, 65535}
CrcKinds == {"good", "low_bit", "swapped"}
Flips == -1 .. (8 * MEASUREMENT_REG_COUNT - 1)

Wires ==
    [func : FuncCodes, count : Counts, hum : HumRaws, temp : TempRaws,
     crcKind : CrcKinds, flip : Flips]

\* The smaller set of responses used where two calls are compared.
SeqWires ==
    [func : {FUNC_READ_REGISTERS, 0}, count : {MEASUREMENT_REG_COUNT},
     hum : {400, 512}, temp : {400, 33168},
     crcKind : {"good", "low_bit"}, flip : {-1, 0}]

NoWire == [func |-> 0, count |-> 0, hum |-> 0, temp |-> 0, crcKind |-> "none", flip |-> -1]

RECURSIVE Pow2(_)
Pow2(n) == IF n = 0 THEN 1 ELSE 2 * Pow2(n - 1)

\* Payload p with bit k flipped: bit k % 8 of byte k \div 8; p itself for k = -1.
FlipBit(p, k) ==
    IF k < 0 THEN p
    ELSE [p EXCEPT ![(k \div 8) + 1] = BitXor(@, Pow2(k % 8))]

WirePayload(w) == <<w.hum \div 256, w.hum % 256, w.temp \div 256, w.temp % 256>>

\* The checksum the sensor sends for payload p.
WireCrc(w) ==
    LET c == crc16(WirePayload(w))
    IN  CASE w.crcKind = "good" -> c
          [] w.crcKind = "low_bit" -> BitXor(c, 1)
          [] OTHER -> (c % 256) * 256 + (c \div 256)

\* The 8 bytes that reach the buffer: checksum high byte first.
FrameBytes(w) ==
    LET c == WireCrc(w)
    IN  <<w.func, w.count>> \o FlipBit(WirePayload(w), w.flip) \o <<c \div 256, c % 256>>

(***************************************************************************)
(* The state machine.                                                      *)
(***************************************************************************)
NoPrev == [wake |-> BusNone, wr |-> BusNone, buf |-> <<>>, result |-> NoResult]

Init ==
    /\ pc = "idle"
    /\ busLog = <<>>
    /\ wakeRes = BusNone
    /\ wrRes = BusNone
    /\ buf = <<>>
    /\ crcRecv = -1
    /\ crcCalc = -1
    /\ result = NoResult
    /\ wire = NoWire
    /\ prev = NoPrev

\* A caller enters measure: nothing of an earlier call is carried over.
Enter ==
    /\ pc \in {"idle", "done"}
    /\ pc' = "wake"
    /\ busLog' = <<>>
    /\ wakeRes' = BusNone
    /\ wrRes' = BusNone
    /\ buf' = <<>>
    /\ crcRecv' = -1
    /\ crcCalc' = -1
    /\ result' = NoResult
    /\ wire' = NoWire

Call == Enter /\ UNCHANGED prev

\* The same, and the observer may note the call that just ended.
CallRemember ==
    /\ Enter
    /\ prev' \in {prev} \cup
                 (IF pc = "done"
                  THEN {[wake |-> wakeRes, wr |-> wrRes, buf |-> buf, result |-> result]}
                  ELSE {})

\* Lines 38-41: the wake write, and on success the zeroed buffer.
WakeWrite ==
    /\ pc = "wake"
    /\ \E o \in BusOutcomes :
        /\ busLog' = Append(busLog, WakeOp)
        /\ wakeRes' = o
        /\ pc' = AfterWake(o)
        /\ result' = IF o.st = "ok" THEN result ELSE I2cWrite(o.e)
        /\ buf' = IF o.st = "ok" THEN BufInit ELSE buf
    /\ UNCHANGED <<wrRes, crcRecv, crcCalc, wire, prev>>

\* Lines 45-46: the command and the read of 8 bytes.  The buffer holds what
\* the bus delivered whether or not the operation reports success.
WriteRead(W) ==
    /\ pc = "command"
    /\ \E w \in W, o \in BusOutcomes :
        /\ busLog' = Append(busLog, CommandOp)
        /\ wrRes' = o
        /\ wire' = w
        /\ buf' = FrameBytes(w)
        /\ pc' = IF o.st = "ok" THEN "header" ELSE "done"
        /\ result' = IF o.st = "ok" THEN result ELSE I2cWriteRead(o.e)
    /\ UNCHANGED <<wakeRes, crcRecv, crcCalc, prev>>

\* Lines 48-53.
CheckHeader ==
    /\ pc = "header"
    /\ LET func_code == At(buf, 0)
           read_count == At(buf, 1)
       IN  IF HeaderFails(func_code, read_count)
           THEN pc' = "done" /\ result' = SensorFailed
           ELSE pc' = "crc" /\ result' = result
    /\ UNCHANGED <<busLog, wakeRes, wrRes, buf, crcRecv, crcCalc, wire, prev>>

\* Lines 55-58.
CheckCrc ==
    /\ pc = "crc"
    /\ crcRecv' = from_be_bytes(At(buf, 6), At(buf, 7))
    /\ crcCalc' = crc16(Payload(buf))
    /\ IF CrcFails(crcRecv', crcCalc')
       THEN pc' = "done" /\ result' = IncorrectCrc
       ELSE pc' = "decode" /\ result' = result
    /\ UNCHANGED <<busLog, wakeRes, wrRes, buf, wire, prev>>

\* Lines 60-69.  Were the multiplication of line 81 to overflow, the call
\* would panic or return the wrapped value, depending on the build.
Decode ==
    /\ pc = "decode"
    /\ LET m == from_raw(raw_temperature(buf), raw_humidity(buf))
       IN  result' \in (IF m.overflow THEN {Panicked, Ok(m)} ELSE {Ok(m)})
    /\ pc' = "done"
    /\ UNCHANGED <<busLog, wakeRes, wrRes, buf, crcRecv, crcCalc, wire, prev>>

Next ==
    \/ Call
    \/ WakeWrite
    \/ WriteRead(Wires)
    \/ CheckHeader
    \/ CheckCrc
    \/ Decode

Spec == Init /\ [][Next]_vars

\* Sequences of calls watched by an observer who remembers one earlier call.
NextSeq ==
    \/ CallRemember
    \/ WakeWrite
    \/ WriteRead(SeqWires)
    \/ CheckHeader
    \/ CheckCrc
    \/ Decode

SpecSeq == Init /\ [][NextSeq]_vars

\* from_raw over every high byte of the raw temperature.
RawWires ==
    [func : {FUNC_READ_REGISTERS}, count : {MEASUREMENT_REG_COUNT},
     hum : {512}, temp : {hi * 256 + lo : hi \in 0..255, lo \in {0, 1, 144, 255}},
     crcKind : {"good"}, flip : {-1}]

NextRaw ==
    \/ Call
    \/ WakeWrite
    \/ WriteRead(RawWires)
    \/ CheckHeader
    \/ CheckCrc
    \/ Decode

SpecRaw == Init /\ [][NextRaw]_vars

(***************************************************************************)
(* Properties.                                                             *)
(***************************************************************************)
Returned == pc = "done"
BothBusOpsOk == wakeRes.st = "ok" /\ wrRes.st = "ok"

\* C1: in every call the bus operations are, in this order and with no
\* retry, one write of [0x00] to 0xB8 and then, only if it succeeded, one
\* write_read to 0xB8 sending [0x03, 0x00, 0x04] and reading 8 bytes; nothing
\* precedes the wake write and nothing follows the write_read.
C1_BusOrder ==
    LET wake == [op |-> "write", addr |-> 184, bytes |-> <<0>>, rdlen |-> 0]
        read == [op |-> "write_read", addr |-> 184, bytes |-> <<3, 0, 4>>, rdlen |-> 8]
    IN  /\ busLog \in {<<>>, <<wake>>, <<wake, read>>}
        /\ Len(busLog) = 2 => wakeRes.st = "ok"
        /\ pc = "wake" => busLog = <<>>
        /\ pc = "command" => busLog = <<wake>>
        /\ pc \in {"header", "crc", "decode"} => busLog = <<wake, read>>
        /\ Returned => busLog = IF wakeRes.st = "ok" THEN <<wake, read>> ELSE <<wake>>

C1_Witness ==
    /\ Returned
    /\ Len(busLog) = 2
    /\ busLog[1].op = "write"
    /\ busLog[2].op = "write_read"

\* C2: a failing wake write ends the call with I2cError(Write(e)) and no
\* write_read is issued; a failing write_read after a successful wake ends it
\* with I2cError(WriteRead(e)) whatever the buffer holds, and no validation
\* is performed.
C2_TransportErrors ==
    /\ wakeRes.st = "err" =>
        /\ Returned
        /\ result.kind = "I2cError.Write" /\ result.e = wakeRes.e
        /\ Len(busLog) = 1 /\ busLog[1].op = "write"
        /\ wrRes.st = "none"
    /\ wrRes.st = "err" =>
        /\ Returned
        /\ wakeRes.st = "ok"
        /\ result.kind = "I2cError.WriteRead" /\ result.e = wrRes.e
        /\ crcRecv = -1 /\ crcCalc = -1

\* A write_read that fails although the buffer holds a fully valid frame.
C2_Witness ==
    /\ Returned
    /\ wrRes.st = "err"
    /\ wire.func = 3 /\ wire.count = 4 /\ wire.crcKind = "good" /\ wire.flip = -1
    /\ result.kind = "I2cError.WriteRead"

\* C3: with both bus operations successful, a frame whose byte0 is not 0x03
\* or whose byte1 is not 0x04 yields SensorFailed whatever bytes 2-7 hold
\* (the checksum is not even computed); IncorrectCrc is returned only for
\* frames with byte0 = 0x03 and byte1 = 0x04.
C3_HeaderFirst ==
    /\ (Returned /\ BothBusOpsOk /\ (buf[1] # 3 \/ buf[2] # 4)) =>
        (result.kind = "SensorFailed" /\ crcCalc = -1)
    /\ result.kind = "IncorrectCrc" => (buf[1] = 3 /\ buf[2] = 4)

\* A wrong function code in front of a payload with its valid checksum.
C3_Witness ==
    /\ Returned /\ BothBusOpsOk
    /\ buf[1] # 3 /\ buf[2] = 4
    /\ wire.crcKind = "good" /\ wire.flip = -1
    /\ result.kind = "SensorFailed"

\* C4: a frame with byte0 = 0x03 and byte1 = 0x04 that differs in exactly one
\* of the 32 bits of bytes 2-5 from a frame whose bytes 6-7 are the correct
\* big-endian CRC-16 yields IncorrectCrc.
C4_SingleBitFlip ==
    (/\ Returned /\ BothBusOpsOk
     /\ buf[1] = 3 /\ buf[2] = 4
     /\ \E k \in 0..31 :
            crc16(FlipBit(SubSeq(buf, 3, 6), k)) = buf[7] * 256 + buf[8])
    => result.kind = "IncorrectCrc"

\* The top bit of the last payload byte was flipped in transit.
C4_Witness ==
    /\ Returned /\ BothBusOpsOk
    /\ wire.func = 3 /\ wire.count = 4 /\ wire.crcKind = "good" /\ wire.flip = 31
    /\ result.kind = "IncorrectCrc"

\* C5: round trip: the frame [0x03, 0x04, p0, p1, p2, p3, hi(crc16(p)),
\* lo(crc16(p))] passes validation: measure returns Ok.
C5_RoundTrip ==
    (/\ Returned /\ BothBusOpsOk
     /\ buf[1] = 3 /\ buf[2] = 4
     /\ buf[7] = crc16(SubSeq(buf, 3, 6)) \div 256
     /\ buf[8] = crc16(SubSeq(buf, 3, 6)) % 256)
    => result.kind = "Ok"

\* A checksum whose two bytes differ, so that their order matters.
C5_Witness ==
    /\ Returned /\ BothBusOpsOk
    /\ wire.crcKind = "good" /\ wire.flip = -1
    /\ buf[7] # buf[8]
    /\ result.kind = "Ok"

\* C6: Ok is returned only when the wake write and the write_read succeeded,
\* byte0 = 0x03, byte1 = 0x04 and bytes 6-7 are the big-endian crc16 of bytes
\* 2-5; every call ends in exactly one of Ok, SensorFailed, IncorrectCrc,
\* I2cError(Write), I2cError(WriteRead), and has no result before it ends.
C6_NoMeasurementOnFailure ==
    /\ result.kind = "Ok" =>
        /\ Returned /\ BothBusOpsOk
        /\ buf[1] = 3 /\ buf[2] = 4
        /\ buf[7] * 256 + buf[8] = crc16(SubSeq(buf, 3, 6))
    /\ Returned =>
        result.kind \in {"Ok", "SensorFailed", "IncorrectCrc",
                         "I2cError.Write", "I2cError.WriteRead"}
    /\ ~Returned => result.kind = "None"

\* A frame with a good header whose checksum is off by its lowest bit.
C6_Witness ==
    /\ Returned /\ BothBusOpsOk
    /\ wire.func = 3 /\ wire.count = 4 /\ wire.crcKind = "low_bit" /\ wire.flip = -1
    /\ result.kind = "IncorrectCrc"

\* The value of a sign-magnitude 16-bit word.
SignMagnitude(r) == IF r < 32768 THEN r ELSE -(r - 32768)

\* C7: on Ok, humidity() is the unsigned big-endian value of bytes 2-3, for
\* values up to 65535, and temperature() is the decoding of the big-endian
\* value of bytes 4-5; [0x03,0x04,0x01,0x90,0x01,0x90,crc] gives 400 and 400.
C7_Decoding ==
    result.kind = "Ok" =>
        /\ result.humidity = 256 * buf[3] + buf[4]
        /\ result.temperature = SignMagnitude(256 * buf[5] + buf[6])
        /\ SubSeq(buf, 3, 6) = <<1, 144, 1, 144>> =>
            (result.temperature = 400 /\ result.humidity = 400)

\* The largest raw humidity next to a different temperature.
C7_Witness ==
    /\ Returned
    /\ result.kind = "Ok"
    /\ result.humidity = 65535
    /\ result.temperature = 400

\* C8: temperature decoding is sign-magnitude: raw r < 0x8000 gives r, raw
\* r >= 0x8000 gives -(r - 0x8000); 0x0190 gives 400, 0x8190 gives -400,
\* 0x8000 gives 0; the result lies in [-32767, 32767] and the negation never
\* overflows i16.
C8_SignMagnitude ==
    /\ result.kind # "Panic"
    /\ result.kind = "Ok" =>
        LET r == 256 * buf[5] + buf[6]
        IN  /\ r < 32768 => result.temperature = r
            /\ r >= 32768 => result.temperature = -(r - 32768)
            /\ r = 400 => result.temperature = 400
            /\ r = 33168 => result.temperature = -400
            /\ r = 32768 => result.temperature = 0
            /\ result.temperature \in -32767..32767
            /\ ~from_raw(r, result.humidity).overflow

C8_Witness ==
    /\ Returned
    /\ result.kind = "Ok"
    /\ buf[5] = 129 /\ buf[6] = 144
    /\ result.temperature = -400

(***************************************************************************)
(* The CRC-16 of the protocol description, on a register of 16 separate    *)
(* bits (bit 0 the lowest): initial register all ones, mask 0xA001 = bits  *)
(* 15, 13 and 0.                                                           *)
(***************************************************************************)
RegBits == 0..15
RefMask == [i \in RegBits |-> IF i \in {0, 13, 15} THEN 1 ELSE 0]
RefOnes == [i \in RegBits |-> 1]
RefByteBits(b) == [i \in RegBits |-> IF i < 8 THEN (b \div Pow2(i)) % 2 ELSE 0]
RefXor(r, q) == [i \in RegBits |-> IF r[i] = q[i] THEN 0 ELSE 1]
RefShiftRight(r) == [i \in RegBits |-> IF i = 15 THEN 0 ELSE r[i + 1]]
RefStep(r) == IF r[0] = 1 THEN RefXor(RefShiftRight(r), RefMask) ELSE RefShiftRight(r)
RefByte(r, b) ==
    LET x == RefXor(r, RefByteBits(b))
    IN  RefStep(RefStep(RefStep(RefStep(RefStep(RefStep(RefStep(RefStep(x))))))))
RefValue(r) ==
    LET sum[i \in 0..16] == IF i = 16 THEN 0 ELSE r[i] * Pow2(i) + sum[i + 1]
    IN  sum[0]
RefCrc(d) == RefValue(RefByte(RefByte(RefByte(RefByte(RefOnes, d[1]), d[2]), d[3]), d[4]))

\* Every value the register of crc16 takes while it processes data: before
\* and after each XOR of a byte and after each of the 8 shifts.
CrcRegisters(data) ==
    LET shifts[crc \in Nat, n \in Nat] ==
            {crc} \cup (IF n = 0 THEN {} ELSE shifts[crc16_shift(crc), n - 1])
        bytes[i \in Nat, crc \in Nat] ==
            IF i > Len(data) THEN {crc}
            ELSE {crc} \cup shifts[BitXor(crc, data[i]), 8]
                       \cup bytes[i + 1, crc16_byte(crc, data[i])]
    IN  bytes[1, CRC_INIT]

\* C9: the checksum measure compares with bytes 6-7 is the CRC-16 with
\* initial register 0xFFFF and mask 0xA001 over bytes 2-5, in that order; the
\* register stays within 0..0xFFFF; the value is a function of bytes 2-5
\* alone (0x2400 for [0,0,0,0], 0x0900 for [0x01,0x90,0x01,0x90]) and does
\* not depend on bytes 0, 1, 6 or 7; the value compared with it is bytes 6-7
\* read big-endian.
C9_Crc16 ==
    crcCalc # -1 =>
        /\ crcCalc = RefCrc(SubSeq(buf, 3, 6))
        /\ crcCalc \in 0..65535
        /\ \A r \in CrcRegisters(SubSeq(buf, 3, 6)) : r \in 0..65535
        /\ SubSeq(buf, 3, 6) = <<0, 0, 0, 0>> => crcCalc = 9216
        /\ SubSeq(buf, 3, 6) = <<1, 144, 1, 144>> => crcCalc = 2304
        /\ crcRecv = buf[7] * 256 + buf[8]

\* The all-zero payload, received with a checksum that does not match.
C9_Witness ==
    /\ crcCalc = 9216
    /\ SubSeq(buf, 3, 6) = <<0, 0, 0, 0>>
    /\ crcRecv # crcCalc
    /\ result.kind = "IncorrectCrc"

\* The call that just returned observed the bus outcomes of the remembered
\* call: the same outcome of the wake write and of the write_read, and, when
\* the write_read succeeded, the same 8 bytes.
SameOutcomes ==
    /\ prev.wake = wakeRes
    /\ prev.wr = wrRes
    /\ wrRes.st = "ok" => prev.buf = buf

\* C10: no state persists between calls: a call that observes the same bus
\* outcomes as an earlier call returns the same result, whatever the calls
\* in between returned; the response buffer is all zeros when the
\* write_read is issued, in every call.
C10_NoStateBetweenCalls ==
    /\ (Returned /\ prev.result.kind # "None" /\ SameOutcomes) => result = prev.result
    /\ pc = "command" => buf = <<0, 0, 0, 0, 0, 0, 0, 0>>

\* Two calls with the same successful response, both decoded.
C10_Witness ==
    /\ Returned
    /\ prev.result.kind = "Ok"
    /\ SameOutcomes
    /\ result.kind = "Ok"
    /\ result.temperature = -400

====
